---- MODULE Spec2Model ----
(***************************************************************************)
(* Operator executors of the dataflow runtime.                             *)
(*                                                                         *)
(* Spec     : the lifecycle of a single-input executor (execute), the      *)
(*            single-input loop of the helper (process_stream), its        *)
(*            deadline queue, the event runners that run the callbacks of  *)
(*            the lattice, and the worker that may send Shutdown.          *)
(* SpecTwo  : the dual-input loop of the helper (process_two_streams).     *)
(* SpecCb   : the closures of the callback events of the three             *)
(*            processors, step by step, on two event runners, next to the  *)
(*            terminal watermarks of execute.                              *)
(***************************************************************************)
EXTENDS Integers, Sequences, FiniteSets, TLC

(* ------------------------------ bounds -------------------------------- *)

\* Largest finite timestamp of a message of the single-input executor.
MaxTs == 2
\* Longest input sequence of the single-input executor.
MaxLen == 2
\* Largest finite watermark of the dual-input loop.
MaxWm == 4
\* Number of messages the dual-input loop reads in one run.
MaxReads == 4

(* ---------------------------- timestamps ------------------------------ *)

\* Timestamp::Bottom < every finite timestamp < Timestamp::Top.
Bottom == 0
Top == (IF MaxTs >= MaxWm THEN MaxTs ELSE MaxWm) + 1
Timestamps == 1..MaxTs

\* cmp::min on timestamps.
min(a, b) == IF a <= b THEN a ELSE b

(* ----------------------------- messages ------------------------------- *)

Data(t) == [kind |-> "Data", timestamp |-> t]
Watermark(t) == [kind |-> "Watermark", timestamp |-> t]
Messages == {Data(t) : t \in Timestamps} \cup {Watermark(t) : t \in Timestamps \cup {Top}}

\* A stream delivers watermarks in increasing order, no data at or below a
\* watermark already delivered, and nothing after Watermark(Top).
WellFormed(s) ==
    \A i \in 1..Len(s) : \A j \in 1..Len(s) :
        (i < j /\ s[i].kind = "Watermark") =>
            /\ s[i].timestamp < s[j].timestamp
            /\ s[i].timestamp # Top

InputSequences ==
    {s \in UNION {[1..n -> Messages] : n \in 0..MaxLen} : WellFormed(s)}

(* --------------------------- write streams ---------------------------- *)

\* The executor variants and their output streams.
Variants == {"OneInOneOut", "ParallelOneInTwoOut", "OneInTwoOut"}
Outputs(v) == IF v = "OneInOneOut" THEN <<"write_stream">>
              ELSE <<"left_write_stream", "right_write_stream">>

NewWriteStream == [msgs |-> <<>>, closed |-> FALSE]

is_closed(ws) == ws.closed

\* WriteStream::send returns an error on a closed stream and delivers the
\* message otherwise; delivering Watermark(Top) closes the stream.
send_ok(ws, msg) == ~ws.closed
send(ws, msg) ==
    IF ws.closed THEN ws
    ELSE [msgs |-> Append(ws.msgs, msg),
          closed |-> (msg.kind = "Watermark" /\ msg.timestamp = Top)]

\* The statistics of a write stream: the number of data messages sent at t.
RECURSIVE CountData(_, _)
CountData(msgs, t) ==
    IF msgs = <<>> THEN 0
    ELSE (IF Head(msgs) = Data(t) THEN 1 ELSE 0) + CountData(Tail(msgs), t)

get_statistics(ws, t) == CountData(ws.msgs, t)

RECURSIVE CountTop(_)
CountTop(msgs) ==
    IF msgs = <<>> THEN 0
    ELSE (IF Head(msgs) = Watermark(Top) THEN 1 ELSE 0) + CountTop(Tail(msgs))

(* ----------------------------- deadlines ------------------------------ *)

ReadStreamId == "s"

\* A declared deadline: the stream it is constrained on, its start condition
\* over the read stream's condition context and its end condition over the
\* statistics of the output stream (end_count data messages sent at t).
OnFirstData == [constrained |-> TRUE, start |-> "first_data", end_count |-> 2]
OnEveryMessage == [constrained |-> TRUE, start |-> "always", end_count |-> 1]
OnOtherStream == [constrained |-> FALSE, start |-> "always", end_count |-> 1]

DeadlineConfigs ==
    { <<>>, <<OnFirstData>>, <<OnOtherStream, OnFirstData, OnEveryMessage>> }

constrained_on_read_stream(d) == d.constrained

start_condition(d, ctx, timestamp) ==
    IF d.start = "first_data" THEN ctx[timestamp] = 1 ELSE TRUE

end_condition(event, count) == count >= event.end_count

NewDeadlineEvent(stream_id, timestamp, d) ==
    [stream_id |-> stream_id, timestamp |-> timestamp, end_count |-> d.end_count]

\* arm_deadlines without the test of the stream the deadline is on.
arm_deadlines_unconstrained(sc, ctx, timestamp) ==
    LET matching == SelectSeq(sc, LAMBDA d : start_condition(d, ctx, timestamp))
    IN  [i \in 1..Len(matching) |-> NewDeadlineEvent(ReadStreamId, timestamp, matching[i])]

\* OneInMessageProcessorT::arm_deadlines
arm_deadlines(sc, ctx, timestamp) ==
    LET matching == SelectSeq(sc, LAMBDA d :
                        constrained_on_read_stream(d) /\ start_condition(d, ctx, timestamp))
    IN  [i \in 1..Len(matching) |-> NewDeadlineEvent(ReadStreamId, timestamp, matching[i])]

Key(event) == <<event.stream_id, event.timestamp>>

\* manage_deadlines without the contains_key test.
RECURSIVE manage_deadlines_unchecked(_, _, _)
manage_deadlines_unchecked(map, queue, deadlines) ==
    IF deadlines = <<>> THEN [map |-> map, queue |-> queue]
    ELSE manage_deadlines_unchecked(map \cup {Key(Head(deadlines))},
                                    Append(queue, Head(deadlines)), Tail(deadlines))

\* OperatorExecutorHelper::manage_deadlines
RECURSIVE manage_deadlines(_, _, _)
manage_deadlines(map, queue, deadlines) ==
    IF deadlines = <<>> THEN [map |-> map, queue |-> queue]
    ELSE LET event == Head(deadlines)
         IN  IF Key(event) \notin map
             THEN manage_deadlines(map \cup {Key(event)}, Append(queue, event),
                                   Tail(deadlines))
             ELSE manage_deadlines(map, queue, Tail(deadlines))

(* ------------------------------ events -------------------------------- *)

OperatorEvent(timestamp, is_watermark, priority, callback) ==
    [timestamp |-> timestamp, is_watermark |-> is_watermark,
     priority |-> priority, callback |-> callback]

\* message_cb_event giving the data event priority 1.
message_cb_event_priority_one(msg) == OperatorEvent(msg.timestamp, FALSE, 1, "on_data")

\* message_cb_event of the three processors.
message_cb_event(msg) == OperatorEvent(msg.timestamp, FALSE, 0, "on_data")

\* watermark_cb_event with priority 127 in both branches.
watermark_cb_event_always_127(flow, timestamp) ==
    IF flow THEN OperatorEvent(timestamp, TRUE, 127, "on_watermark_flow")
    ELSE OperatorEvent(timestamp, TRUE, 127, "on_watermark")

\* watermark_cb_event of the three processors.
watermark_cb_event(flow, timestamp) ==
    IF flow THEN OperatorEvent(timestamp, TRUE, 127, "on_watermark_flow")
    ELSE OperatorEvent(timestamp, TRUE, 0, "on_watermark")

(* ------------------------------- state -------------------------------- *)

VARIABLES
    variant,                      \* which executor runs
    flow_watermarks,              \* config.flow_watermarks
    pc,                           \* position of execute
    cleanup_index,                \* output stream the cleanup is at
    log,                          \* lifecycle steps taken so far
    setup_context,                \* deadlines declared by setup
    read_stream,                  \* messages not yet read; the upstream closes after them
    condition_context,            \* data messages read per timestamp
    delivered,                    \* messages async_read has yielded, in order
    events,                       \* batch awaiting lattice.add_events
    lattice,                      \* events inserted, in insertion order
    completed,                    \* indices of events whose callback ran
    blocked,                      \* indices of events whose callback hangs
    notifications,                \* AddedEvents sent to the event runners
    event_runners,                \* the last AddedEvents send found a receiver
    write_streams,                \* output streams
    deadline_queue,               \* timers armed and not yet expired
    deadline_queue_rx,            \* expired deadline events not yet received
    stream_timestamp_to_key_map,  \* keys of the active deadlines
    handler_calls,                \* timestamps the deadline handler ran with
    channel_from_worker,          \* notification pending from the worker
    channel_to_worker,            \* notifications published to the worker
    left_watermark,               \* process_two_streams
    right_watermark,
    min_watermark,
    left_open,
    right_open,
    closed_at,                    \* per side: messages selected when its upstream closed
    arrivals,                     \* messages selected by process_two_streams
    batches,                      \* batches it passed to lattice.add_events
    loop2,                        \* position of process_two_streams
    runners,                      \* per event runner: its event and the steps left
    mutexes,                      \* holder of the operator and of the state mutex
    cb_log                        \* steps the callbacks have taken

configVars == <<variant, flow_watermarks>>
inputVars == <<read_stream, condition_context, delivered>>
latticeVars == <<lattice, completed, blocked, notifications, event_runners>>
deadlineVars ==
    <<deadline_queue, deadline_queue_rx, stream_timestamp_to_key_map, handler_calls>>
workerVars == <<channel_from_worker, channel_to_worker>>

execVars ==
    <<configVars, pc, cleanup_index, log, setup_context, inputVars, events, latticeVars,
      write_streams, deadlineVars, workerVars>>

twoVars ==
    <<left_watermark, right_watermark, min_watermark, left_open, right_open,
      closed_at, arrivals, batches, loop2>>

cbVars == <<runners, mutexes, cb_log>>

vars == <<execVars, twoVars, cbVars>>

OperatorId == "op"

\* State of OneInOneOutExecutor::new / the processors' new, before execute.
ExecInit ==
    /\ variant \in Variants
    /\ flow_watermarks \in BOOLEAN
    /\ pc = "synchronize"
    /\ cleanup_index = 1
    /\ log = <<>>
    /\ setup_context = <<>>
    /\ read_stream \in InputSequences
    /\ condition_context = [t \in Timestamps \cup {Top} |-> 0]
    /\ delivered = <<>>
    /\ events = <<>>
    /\ lattice = <<>>
    /\ completed = {}
    /\ blocked = {}
    /\ notifications = 0
    /\ event_runners = TRUE
    /\ write_streams = [o \in {Outputs(variant)[i] : i \in 1..Len(Outputs(variant))}
                            |-> NewWriteStream]
    /\ deadline_queue = <<>>
    /\ deadline_queue_rx = <<>>
    /\ stream_timestamp_to_key_map = {}
    /\ handler_calls = <<>>
    /\ channel_from_worker = "empty"
    /\ channel_to_worker = <<>>

\* Locals of process_two_streams before its loop.
\* closed_at of a side whose upstream has not closed.
NotClosed == 0 - 1

TwoInit ==
    /\ left_watermark = Bottom
    /\ right_watermark = Bottom
    /\ min_watermark = min(Bottom, Bottom)
    /\ left_open = TRUE
    /\ right_open = TRUE
    /\ closed_at = [side \in {"left", "right"} |-> NotClosed]
    /\ arrivals = <<>>
    /\ batches = <<>>
    /\ loop2 = "loop"

\* The event runners of the callback steps: two of them, idle at first.
Runners == 1..2
Idle == [event |-> 0, todo |-> <<>>]

\* Mutex::new for the operator and for the state of the sequential
\* processor: 0 is unlocked.
CbInit ==
    /\ runners = [r \in Runners |-> Idle]
    /\ mutexes = [m \in {"operator", "state"} |-> 0]
    /\ cb_log = <<>>

Init == ExecInit /\ TwoInit /\ CbInit

(* ------------------------------ execute ------------------------------- *)

\* helper.synchronize().await
Synchronize ==
    /\ pc = "synchronize"
    /\ pc' = "setup"
    /\ log' = Append(log, "synchronize")
    /\ UNCHANGED <<cbVars, twoVars, configVars, cleanup_index, setup_context, inputVars, events,
                   latticeVars, write_streams, deadlineVars, workerVars>>

\* operator.setup(&mut setup_context): the operator declares its deadlines.
Setup ==
    /\ pc = "setup"
    /\ pc' = "run"
    /\ log' = Append(log, "setup")
    /\ setup_context' \in DeadlineConfigs
    /\ UNCHANGED <<cbVars, twoVars, configVars, cleanup_index, inputVars, events, latticeVars,
                   write_streams, deadlineVars, workerVars>>

\* block_in_place(|| operator.run(..)); process_stream is polled from here on.
Run ==
    /\ pc = "run"
    /\ pc' = "loop"
    /\ log' = Append(log, "run")
    /\ UNCHANGED <<cbVars, twoVars, configVars, cleanup_index, setup_context, inputVars, events,
                   latticeVars, write_streams, deadlineVars, workerVars>>

\* process_stream running as a task of its own, which the select of execute
\* does not stop.
process_stream_detached == pc \notin {"synchronize", "setup", "run"}

\* execute polls process_stream only inside its select.  The else branch of
\* the select of process_stream needs both patterns to fail: the read fails
\* once the upstream has closed, but deadline_queue_rx.receive() yields None
\* only after the DelayQueue is dropped, and the helper owns it for the whole
\* loop.  The loop therefore has no exit step of its own here; execute leaves
\* it through the worker channel.
process_stream_polled == pc = "loop"

\* disarm_deadline evaluating the end condition on the read stream's
\* condition context.
disarm_deadline_on_read_stream(v, streams, deadline_event) ==
    IF v = "OneInOneOut"
    THEN end_condition(deadline_event, condition_context[deadline_event.timestamp])
    ELSE TRUE

\* disarm_deadline returning the negation of the end condition.
disarm_deadline_inverted(v, streams, deadline_event) ==
    IF v = "OneInOneOut"
    THEN ~end_condition(deadline_event,
                        get_statistics(streams["write_stream"], deadline_event.timestamp))
    ELSE TRUE

\* OneInOneOutExecutor::disarm_deadline; the one-in-two-out processors keep
\* the default of the trait.
disarm_deadline(v, streams, deadline_event) ==
    IF v = "OneInOneOut"
    THEN end_condition(deadline_event,
                       get_statistics(streams["write_stream"], deadline_event.timestamp))
    ELSE TRUE

\* The deadline branch leaving the entry of the handled event in the map.
DeadlineBranchKeepingKey ==
    /\ process_stream_polled
    /\ events = <<>>
    /\ deadline_queue_rx # <<>>
    /\ LET deadline_event == Head(deadline_queue_rx)
       IN  handler_calls' =
              IF ~disarm_deadline(variant, write_streams, deadline_event)
              THEN Append(handler_calls, deadline_event.timestamp)
              ELSE handler_calls
    /\ deadline_queue_rx' = Tail(deadline_queue_rx)
    /\ UNCHANGED <<cbVars, twoVars, configVars, pc, cleanup_index, log, setup_context, inputVars, events,
                   latticeVars, write_streams, deadline_queue, stream_timestamp_to_key_map,
                   workerVars>>

\* process_stream: Some(deadline_event) = deadline_queue_rx.receive()
DeadlineBranch ==
    /\ process_stream_polled
    /\ events = <<>>
    /\ deadline_queue_rx # <<>>
    /\ LET deadline_event == Head(deadline_queue_rx)
       IN  /\ handler_calls' =
                 IF ~disarm_deadline(variant, write_streams, deadline_event)
                 THEN Append(handler_calls, deadline_event.timestamp)
                 ELSE handler_calls
           /\ stream_timestamp_to_key_map' =
                 stream_timestamp_to_key_map \ {Key(deadline_event)}
    /\ deadline_queue_rx' = Tail(deadline_queue_rx)
    /\ UNCHANGED <<cbVars, twoVars, configVars, pc, cleanup_index, log, setup_context, inputVars, events,
                   latticeVars, write_streams, deadline_queue, workerVars>>

\* The message branch sending AddedEvents before it awaits the insertion.
MessageBranchNotifyingFirst ==
    /\ process_stream_polled
    /\ events = <<>>
    /\ read_stream # <<>>
    /\ LET msg == Head(read_stream)
           ctx == IF msg.kind = "Data"
                  THEN [condition_context EXCEPT ![msg.timestamp] = @ + 1]
                  ELSE condition_context
           deadline_events == arm_deadlines(setup_context, ctx, msg.timestamp)
           armed == manage_deadlines(stream_timestamp_to_key_map, deadline_queue,
                                     deadline_events)
       IN  /\ read_stream' = Tail(read_stream)
           /\ condition_context' = ctx
           /\ delivered' = Append(delivered, msg)
           /\ events' = IF msg.kind = "Data"
                        THEN <<message_cb_event(msg)>>
                        ELSE <<watermark_cb_event(flow_watermarks, msg.timestamp)>>
           /\ stream_timestamp_to_key_map' = armed.map
           /\ deadline_queue' = armed.queue
    /\ notifications' = notifications + 1
    /\ UNCHANGED <<cbVars, twoVars, configVars, pc, cleanup_index, log, setup_context, lattice,
                   completed, blocked, event_runners, write_streams, deadline_queue_rx,
                   handler_calls, workerVars>>

\* process_stream: Ok(msg) = read_stream.async_read(), up to the await of
\* lattice.add_events.
MessageBranch ==
    /\ process_stream_polled
    /\ events = <<>>
    /\ read_stream # <<>>
    /\ LET msg == Head(read_stream)
           ctx == IF msg.kind = "Data"
                  THEN [condition_context EXCEPT ![msg.timestamp] = @ + 1]
                  ELSE condition_context
           deadline_events == arm_deadlines(setup_context, ctx, msg.timestamp)
           armed == manage_deadlines(stream_timestamp_to_key_map, deadline_queue,
                                     deadline_events)
       IN  /\ read_stream' = Tail(read_stream)
           /\ condition_context' = ctx
           /\ delivered' = Append(delivered, msg)
           /\ events' = IF msg.kind = "Data"
                        THEN <<message_cb_event(msg)>>
                        ELSE <<watermark_cb_event(flow_watermarks, msg.timestamp)>>
           /\ stream_timestamp_to_key_map' = armed.map
           /\ deadline_queue' = armed.queue
    /\ UNCHANGED <<cbVars, twoVars, configVars, pc, cleanup_index, log, setup_context, latticeVars,
                   write_streams, deadline_queue_rx, handler_calls, workerVars>>

\* add_events putting the batch in front of the events already inserted.
AddEventsInFront ==
    /\ process_stream_polled
    /\ events # <<>>
    /\ lattice' = events \o lattice
    /\ events' = <<>>
    /\ \E receivers \in BOOLEAN :
          /\ event_runners' = receivers
          /\ IF receivers
             THEN /\ notifications' = notifications + 1
                  /\ UNCHANGED pc
             ELSE /\ pc' = "panicked"
                  /\ UNCHANGED notifications
    /\ UNCHANGED <<cbVars, twoVars, configVars, cleanup_index, log, setup_context, inputVars,
                   completed, blocked, write_streams, deadlineVars, workerVars>>

\* The notifier send with its error ignored: the loop goes on.
AddEventsIgnoringSendError ==
    /\ process_stream_polled
    /\ events # <<>>
    /\ lattice' = lattice \o events
    /\ events' = <<>>
    /\ \E receivers \in BOOLEAN :
          /\ event_runners' = receivers
          /\ notifications' = IF receivers THEN notifications + 1 ELSE notifications
    /\ UNCHANGED <<cbVars, twoVars, configVars, pc, cleanup_index, log, setup_context, inputVars,
                   completed, blocked, write_streams, deadlineVars, workerVars>>

\* process_stream: lattice.add_events(events) completes, then
\* notifier_tx.send(AddedEvents).unwrap().  The send fails when the event
\* runners have dropped their receivers by then, and the unwrap panics
\* inside execute.
AddEvents ==
    /\ process_stream_polled
    /\ events # <<>>
    /\ lattice' = lattice \o events
    /\ events' = <<>>
    /\ \E receivers \in BOOLEAN :
          /\ event_runners' = receivers
          /\ IF receivers
             THEN /\ notifications' = notifications + 1
                  /\ UNCHANGED pc
             ELSE /\ pc' = "panicked"
                  /\ UNCHANGED notifications
    /\ UNCHANGED <<cbVars, twoVars, configVars, cleanup_index, log, setup_context, inputVars,
                   completed, blocked, write_streams, deadlineVars, workerVars>>

\* The Shutdown branch going to the cleanup without running destroy.
ShutdownBranchSkippingDestroy ==
    /\ pc = "loop"
    /\ channel_from_worker # "empty"
    /\ channel_from_worker' = "empty"
    /\ pc' = "cleanup_check"
    /\ log' = Append(log, "loop")
    /\ UNCHANGED <<cbVars, twoVars, configVars, cleanup_index, setup_context, inputVars, events,
                   latticeVars, write_streams, deadlineVars, channel_to_worker>>

\* The Shutdown branch dropping the deadlines still armed.
ShutdownBranchClearingDeadlines ==
    /\ pc = "loop"
    /\ channel_from_worker # "empty"
    /\ channel_from_worker' = "empty"
    /\ pc' = "destroy"
    /\ log' = Append(log, "loop")
    /\ deadline_queue' = <<>>
    /\ deadline_queue_rx' = <<>>
    /\ stream_timestamp_to_key_map' = {}
    /\ UNCHANGED <<cbVars, twoVars, configVars, cleanup_index, setup_context, inputVars, events,
                   latticeVars, write_streams, handler_calls, channel_to_worker>>

\* execute: channel_from_worker.recv() yields Shutdown or an error.
ShutdownBranch ==
    /\ pc = "loop"
    /\ channel_from_worker # "empty"
    /\ channel_from_worker' = "empty"
    /\ pc' = "destroy"
    /\ log' = Append(log, "loop")
    /\ UNCHANGED <<cbVars, twoVars, configVars, cleanup_index, setup_context, inputVars, events,
                   latticeVars, write_streams, deadlineVars, channel_to_worker>>

\* block_in_place(|| operator.destroy()); the helper is put back.
Destroy ==
    /\ pc = "destroy"
    /\ pc' = "cleanup_check"
    /\ cleanup_index' = 1
    /\ log' = Append(log, "destroy")
    /\ UNCHANGED <<cbVars, twoVars, configVars, setup_context, inputVars, events, latticeVars,
                   write_streams, deadlineVars, workerVars>>

\* Position of execute after the output stream at cleanup_index is dealt with.
AfterOutput(i) == IF i < Len(Outputs(variant)) THEN "cleanup_check" ELSE "notify"
NextOutput(i) == IF i < Len(Outputs(variant)) THEN i + 1 ELSE i

\* if !write_stream.is_closed()
CleanupCheck ==
    /\ pc = "cleanup_check"
    /\ IF is_closed(write_streams[Outputs(variant)[cleanup_index]])
       THEN /\ pc' = AfterOutput(cleanup_index)
            /\ cleanup_index' = NextOutput(cleanup_index)
       ELSE /\ pc' = "cleanup_send"
            /\ UNCHANGED cleanup_index
    /\ UNCHANGED <<cbVars, twoVars, configVars, log, setup_context, inputVars, events, latticeVars,
                   write_streams, deadlineVars, workerVars>>

\* The cleanup going past an open output stream without sending.
CleanupSendOmitted ==
    /\ pc = "cleanup_send"
    /\ pc' = AfterOutput(cleanup_index)
    /\ cleanup_index' = NextOutput(cleanup_index)
    /\ UNCHANGED <<cbVars, twoVars, configVars, log, setup_context, inputVars, events,
                   latticeVars, write_streams, deadlineVars, workerVars>>

\* write_stream.send(Message::new_watermark(Timestamp::Top)).expect(..)
CleanupSend ==
    /\ pc = "cleanup_send"
    /\ LET o == Outputs(variant)[cleanup_index]
       IN  IF send_ok(write_streams[o], Watermark(Top))
           THEN /\ write_streams' = [write_streams EXCEPT ![o] = send(@, Watermark(Top))]
                /\ log' = Append(log, o)
                /\ pc' = AfterOutput(cleanup_index)
                /\ cleanup_index' = NextOutput(cleanup_index)
           ELSE /\ pc' = "panicked"
                /\ UNCHANGED <<write_streams, log, cleanup_index>>
    /\ UNCHANGED <<cbVars, twoVars, configVars, setup_context, inputVars, events, latticeVars,
                   deadlineVars, workerVars>>

\* channel_to_worker.send(WorkerNotification::DestroyedOperator(operator_id))
NotifyWorker ==
    /\ pc = "notify"
    /\ channel_to_worker' = Append(channel_to_worker, <<"DestroyedOperator", OperatorId>>)
    /\ log' = Append(log, "DestroyedOperator")
    /\ pc' = "done"
    /\ UNCHANGED <<cbVars, twoVars, configVars, cleanup_index, setup_context, inputVars, events,
                   latticeVars, write_streams, deadlineVars, channel_from_worker>>

(* --------------------- worker, timers, event runners ------------------ *)

WorkerNotifications == {"Shutdown", "Err"}

\* The worker broadcasts Shutdown to the running executor, or its sender is
\* dropped.
WorkerNotify ==
    /\ channel_from_worker = "empty"
    /\ pc \in {"synchronize", "setup", "run", "loop"}
    /\ channel_from_worker' \in WorkerNotifications
    /\ UNCHANGED <<cbVars, twoVars, configVars, pc, cleanup_index, log, setup_context, inputVars, events,
                   latticeVars, write_streams, deadlineVars, channel_to_worker>>

RemoveAt(s, i) == SubSeq(s, 1, i - 1) \o SubSeq(s, i + 1, Len(s))

\* The duration of an armed deadline elapses: the delay queue hands the
\* event to its receiver.
TimerExpire ==
    /\ \E i \in 1..Len(deadline_queue) :
          /\ deadline_queue_rx' = Append(deadline_queue_rx, deadline_queue[i])
          /\ deadline_queue' = RemoveAt(deadline_queue, i)
    /\ UNCHANGED <<cbVars, twoVars, configVars, pc, cleanup_index, log, setup_context, inputVars, events,
                   latticeVars, write_streams, stream_timestamp_to_key_map,
                   handler_calls, workerVars>>

\* The lattice hands out an event once every event of an earlier timestamp,
\* and every data event of the same timestamp before a watermark event, has
\* completed.
Precedes(a, b) ==
    \/ a.timestamp < b.timestamp
    \/ a.timestamp = b.timestamp /\ ~a.is_watermark /\ b.is_watermark

LatticeReady(i) ==
    /\ i \in 1..Len(lattice)
    /\ i \notin completed \cup blocked
    /\ \A j \in 1..Len(lattice) : Precedes(lattice[j], lattice[i]) => j \in completed

\* The sequential watermark callback without flow_watermarks locks the state
\* mutex while it holds it.
Relocks(v, event) == v = "OneInTwoOut" /\ event.callback = "on_watermark"

SendAll(streams, names, msg) ==
    [o \in DOMAIN streams |-> IF o \in names THEN send(streams[o], msg) ELSE streams[o]]

\* What the callback of an event sends: on_data forwards the data on the
\* first output; the watermark callback with flow_watermarks sends the
\* watermark on every output after on_watermark.
Callback(v, streams, event) ==
    IF event.callback = "on_data"
    THEN SendAll(streams, {Outputs(v)[1]}, Data(event.timestamp))
    ELSE IF event.callback = "on_watermark_flow"
    THEN SendAll(streams, DOMAIN streams, Watermark(event.timestamp))
    ELSE streams

\* An event runner that still holds its receiver runs the callback of an
\* event of the lattice.
RunEvent ==
    /\ event_runners
    /\ \E i \in 1..Len(lattice) :
          /\ LatticeReady(i)
          /\ IF Relocks(variant, lattice[i])
             THEN /\ blocked' = blocked \cup {i}
                  /\ UNCHANGED <<completed, write_streams>>
             ELSE /\ completed' = completed \cup {i}
                  /\ write_streams' = Callback(variant, write_streams, lattice[i])
                  /\ UNCHANGED blocked
    /\ UNCHANGED <<cbVars, twoVars, configVars, pc, cleanup_index, log, setup_context, inputVars, events,
                   lattice, notifications, event_runners, deadlineVars, workerVars>>

Next ==
    \/ Synchronize
    \/ Setup
    \/ Run
    \/ DeadlineBranch
    \/ MessageBranch
    \/ AddEvents
    \/ ShutdownBranch
    \/ Destroy
    \/ CleanupCheck
    \/ CleanupSend
    \/ NotifyWorker
    \/ WorkerNotify
    \/ TimerExpire
    \/ RunEvent

Spec == Init /\ [][Next]_vars

(* ------------------------ process_two_streams ------------------------- *)

\* Events of TwoInMessageProcessorT.
TwoInEvent(callback, timestamp, is_watermark) ==
    [timestamp |-> timestamp, is_watermark |-> is_watermark, callback |-> callback]

\* The batch for a data message: the stateless event, then the stateful one.
left_data_events(msg) ==
    <<TwoInEvent("left_stateless", msg.timestamp, FALSE),
      TwoInEvent("left_stateful", msg.timestamp, FALSE)>>

\* The batch of a right data message with the stateful event first.
right_data_events_stateful_first(msg) ==
    <<TwoInEvent("right_stateful", msg.timestamp, FALSE),
      TwoInEvent("right_stateless", msg.timestamp, FALSE)>>
right_data_events(msg) ==
    <<TwoInEvent("right_stateless", msg.timestamp, FALSE),
      TwoInEvent("right_stateful", msg.timestamp, FALSE)>>

\* The advance test answering true for every watermark.
advance_watermark_always(left, right, merged) == TRUE

\* The advance test with >= in place of >.
advance_watermark_ge(left, right, merged) == min(left, right) >= merged

\* The advance test with cmp::max in place of cmp::min.
advance_watermark_max(left, right, merged) ==
    (IF left >= right THEN left ELSE right) > merged

\* cmp::min(&left_watermark, &right_watermark) > &min_watermark
advance_watermark(left, right, merged) == min(left, right) > merged

\* Messages a side can deliver next: a watermark not below the side's last
\* one, or data of the timestamp after it.
NextMessages(side_watermark) ==
    {[kind |-> "Watermark", timestamp |-> t] :
        t \in (IF side_watermark = Bottom THEN 1 ELSE side_watermark)..MaxWm}
    \cup {[kind |-> "Data", timestamp |-> t] :
        t \in {side_watermark + 1} \cap (1..MaxWm)}

\* What process_two_streams leaves alone.
twoFrame ==
    <<cbVars, configVars, pc, cleanup_index, log, setup_context, inputVars, events, completed,
      event_runners,
      blocked, write_streams, deadlineVars, workerVars>>

\* Ok(left_msg) = left_read_stream.async_read(), add_events and AddedEvents.
LeftMessage ==
    /\ loop2 = "loop"
    /\ left_open
    /\ Len(arrivals) < MaxReads
    /\ \E left_msg \in NextMessages(left_watermark) :
          /\ arrivals' = Append(arrivals, <<"left", left_msg>>)
          /\ IF left_msg.kind = "Data"
             THEN /\ batches' = Append(batches, left_data_events(left_msg))
                  /\ lattice' = lattice \o left_data_events(left_msg)
                  /\ UNCHANGED <<left_watermark, min_watermark>>
             ELSE /\ left_watermark' = left_msg.timestamp
                  /\ IF advance_watermark(left_msg.timestamp, right_watermark,
                                          min_watermark)
                     THEN /\ min_watermark' = left_msg.timestamp
                          /\ batches' = Append(batches,
                                <<TwoInEvent("watermark", left_msg.timestamp, TRUE)>>)
                          /\ lattice' = Append(lattice,
                                TwoInEvent("watermark", left_msg.timestamp, TRUE))
                     ELSE /\ batches' = Append(batches, <<>>)
                          /\ UNCHANGED <<min_watermark, lattice>>
    /\ notifications' = notifications + 1
    /\ UNCHANGED <<right_watermark, left_open, right_open, closed_at, loop2, twoFrame>>

\* Ok(right_msg) = right_read_stream.async_read(), add_events and AddedEvents.
RightMessage ==
    /\ loop2 = "loop"
    /\ right_open
    /\ Len(arrivals) < MaxReads
    /\ \E right_msg \in NextMessages(right_watermark) :
          /\ arrivals' = Append(arrivals, <<"right", right_msg>>)
          /\ IF right_msg.kind = "Data"
             THEN /\ batches' = Append(batches, right_data_events(right_msg))
                  /\ lattice' = lattice \o right_data_events(right_msg)
                  /\ UNCHANGED <<right_watermark, min_watermark>>
             ELSE /\ right_watermark' = right_msg.timestamp
                  /\ IF advance_watermark(left_watermark, right_msg.timestamp,
                                          min_watermark)
                     THEN /\ min_watermark' = right_msg.timestamp
                          /\ batches' = Append(batches,
                                <<TwoInEvent("watermark", right_msg.timestamp, TRUE)>>)
                          /\ lattice' = Append(lattice,
                                TwoInEvent("watermark", right_msg.timestamp, TRUE))
                     ELSE /\ batches' = Append(batches, <<>>)
                          /\ UNCHANGED <<min_watermark, lattice>>
    /\ notifications' = notifications + 1
    /\ UNCHANGED <<left_watermark, left_open, right_open, closed_at, loop2, twoFrame>>

\* The upstream of the left input closes: its async_read fails from now on.
LeftClose ==
    /\ loop2 = "loop"
    /\ left_open
    /\ left_open' = FALSE
    /\ closed_at' = [closed_at EXCEPT !["left"] = Len(arrivals)]
    /\ UNCHANGED <<left_watermark, right_watermark, min_watermark, right_open,
                   arrivals, batches, loop2, lattice, notifications, twoFrame>>

\* The upstream of the right input closes.
RightClose ==
    /\ loop2 = "loop"
    /\ right_open
    /\ right_open' = FALSE
    /\ closed_at' = [closed_at EXCEPT !["right"] = Len(arrivals)]
    /\ UNCHANGED <<left_watermark, right_watermark, min_watermark, left_open,
                   arrivals, batches, loop2, lattice, notifications, twoFrame>>

\* The loop breaking as soon as one of the two reads has failed.
TwoLoopExitOnFirstClose ==
    /\ loop2 = "loop"
    /\ ~left_open \/ ~right_open
    /\ loop2' = "returned"
    /\ UNCHANGED <<left_watermark, right_watermark, min_watermark, left_open,
                   right_open, closed_at, arrivals, batches, lattice, notifications,
                   twoFrame>>

\* else => break: both reads have failed.
TwoLoopExit ==
    /\ loop2 = "loop"
    /\ ~left_open
    /\ ~right_open
    /\ loop2' = "returned"
    /\ UNCHANGED <<left_watermark, right_watermark, min_watermark, left_open,
                   right_open, closed_at, arrivals, batches, lattice, notifications,
                   twoFrame>>

\* The helper of a two-input executor, at the call of process_two_streams.
TwoExecInit ==
    /\ variant = "TwoInOneOut"
    /\ flow_watermarks = TRUE
    /\ pc = "loop"
    /\ cleanup_index = 1
    /\ log = <<>>
    /\ setup_context = <<>>
    /\ read_stream = <<>>
    /\ condition_context = [t \in Timestamps \cup {Top} |-> 0]
    /\ delivered = <<>>
    /\ events = <<>>
    /\ lattice = <<>>
    /\ completed = {}
    /\ blocked = {}
    /\ notifications = 0
    /\ event_runners = TRUE
    /\ write_streams = [o \in {"write_stream"} |-> NewWriteStream]
    /\ deadline_queue = <<>>
    /\ deadline_queue_rx = <<>>
    /\ stream_timestamp_to_key_map = {}
    /\ handler_calls = <<>>
    /\ channel_from_worker = "empty"
    /\ channel_to_worker = <<>>

InitTwo == TwoExecInit /\ TwoInit /\ CbInit

NextTwo ==
    \/ LeftMessage
    \/ RightMessage
    \/ LeftClose
    \/ RightClose
    \/ TwoLoopExit

SpecTwo == InitTwo /\ [][NextTwo]_vars

Range(s) == {s[i] : i \in 1..Len(s)}

\* The entries execute has logged once destroy has run.
Lifecycle == <<"synchronize", "setup", "run", "loop", "destroy">>

(* ----------------------- callback closures --------------------------- *)

Step(op, arg) == [op |-> op, arg |-> arg]

\* The closure of message_cb_event.  The sequential processor evaluates
\* operator.lock() as the receiver of on_data and state.lock() as one of its
\* arguments; both guards are temporaries of that statement.
message_cb_steps(v) ==
    IF v = "OneInTwoOut"
    THEN <<Step("lock", "operator"), Step("lock", "state"), Step("call", "on_data"),
           Step("unlock", "state"), Step("unlock", "operator")>>
    ELSE <<Step("call", "on_data")>>

\* The closure sending the watermark before it calls on_watermark.
one_in_one_out_watermark_cb_steps_send_first(flow) ==
    IF flow
    THEN <<Step("send", "write_stream"), Step("call", "on_watermark")>>
    ELSE <<Step("call", "on_watermark")>>

\* The closure of OneInOneOutExecutor::watermark_cb_event.
one_in_one_out_watermark_cb_steps(flow) ==
    IF flow
    THEN <<Step("call", "on_watermark"), Step("send", "write_stream")>>
    ELSE <<Step("call", "on_watermark")>>

\* The closure of ParallelOneInTwoOutMessageProcessor::watermark_cb_event.
parallel_watermark_cb_steps(flow) ==
    IF flow
    THEN <<Step("call", "on_watermark"), Step("send", "left_write_stream"),
           Step("send", "right_write_stream"), Step("commit", "state")>>
    ELSE <<Step("call", "on_watermark"), Step("commit", "state")>>

\* The closure of OneInTwoOutMessageProcessor::watermark_cb_event:
\* mutable_state holds the state guard to the end of the closure, the
\* operator guard is a temporary of the on_watermark statement, and without
\* flow_watermarks the context is built from a second state.lock().
sequential_watermark_cb_steps(flow) ==
    IF flow
    THEN <<Step("lock", "state"), Step("lock", "operator"), Step("call", "on_watermark"),
           Step("unlock", "operator"), Step("send", "left_write_stream"),
           Step("send", "right_write_stream"), Step("commit", "state"),
           Step("unlock", "state")>>
    ELSE <<Step("lock", "state"), Step("lock", "operator"), Step("lock", "state"),
           Step("call", "on_watermark"), Step("unlock", "state"),
           Step("unlock", "operator"), Step("commit", "state"), Step("unlock", "state")>>

watermark_cb_steps(v, flow) ==
    IF v = "OneInOneOut" THEN one_in_one_out_watermark_cb_steps(flow)
    ELSE IF v = "ParallelOneInTwoOut" THEN parallel_watermark_cb_steps(flow)
    ELSE sequential_watermark_cb_steps(flow)

\* The steps of the closure of an event.
CallbackSteps(v, event) ==
    IF event.is_watermark
    THEN watermark_cb_steps(v, event.callback = "on_watermark_flow")
    ELSE message_cb_steps(v)

\* The lattice holds back a watermark event until the events of the
\* timestamps up to its own have completed; it does not order a data event
\* after the events of other timestamps.
MustPrecede(a, b) ==
    /\ b.is_watermark
    /\ \/ a.timestamp < b.timestamp
       \/ a.timestamp = b.timestamp /\ ~a.is_watermark

Running == {runners[r].event : r \in Runners} \ {0}

CbReady(i) ==
    /\ i \in 1..Len(lattice)
    /\ i \notin completed \cup blocked \cup Running
    /\ \A j \in 1..Len(lattice) : MustPrecede(lattice[j], lattice[i]) => j \in completed

cbFrame ==
    <<twoVars, configVars, pc, cleanup_index, log, setup_context, inputVars, events,
      lattice, notifications, event_runners, deadlineVars, workerVars>>

\* An idle event runner takes an event from the lattice.
CbStart(r) ==
    /\ runners[r] = Idle
    /\ \E i \in 1..Len(lattice) :
          /\ CbReady(i)
          /\ runners' = [runners EXCEPT
                           ![r] = [event |-> i, todo |-> CallbackSteps(variant, lattice[i])]]
    /\ UNCHANGED <<cbFrame, completed, blocked, write_streams, mutexes, cb_log>>

NextStep(r) == Head(runners[r].todo)
Advance(r) == [runners EXCEPT ![r].todo = Tail(@)]
Logged(r) == Append(cb_log, <<runners[r].event, NextStep(r).op, NextStep(r).arg>>)

\* mutex.lock().unwrap() on a mutex that is free.
CbLock(r) ==
    /\ runners[r].todo # <<>>
    /\ NextStep(r).op = "lock"
    /\ mutexes[NextStep(r).arg] = 0
    /\ mutexes' = [mutexes EXCEPT ![NextStep(r).arg] = r]
    /\ runners' = Advance(r)
    /\ cb_log' = Logged(r)
    /\ UNCHANGED <<cbFrame, completed, blocked, write_streams>>

Poisoned == 0 - 1

\* mutex.lock().unwrap() on a mutex its own thread holds, when lock panics
\* rather than never returning, or on a poisoned mutex: the closure unwinds
\* and the guards it holds poison their mutexes.
CbLockPanic(r) ==
    /\ runners[r].todo # <<>>
    /\ NextStep(r).op = "lock"
    /\ mutexes[NextStep(r).arg] \in {r, Poisoned}
    /\ mutexes' = [m \in DOMAIN mutexes |-> IF mutexes[m] = r THEN Poisoned ELSE mutexes[m]]
    /\ blocked' = blocked \cup {runners[r].event}
    /\ runners' = [runners EXCEPT ![r] = Idle]
    /\ UNCHANGED <<cbFrame, completed, write_streams, cb_log>>

\* The guard of a mutex is dropped.
CbUnlock(r) ==
    /\ runners[r].todo # <<>>
    /\ NextStep(r).op = "unlock"
    /\ mutexes' = [mutexes EXCEPT ![NextStep(r).arg] = 0]
    /\ runners' = Advance(r)
    /\ UNCHANGED <<cbFrame, completed, blocked, write_streams, cb_log>>

\* The user's callback: on_data forwards its data on the first output;
\* on_watermark may send data of its timestamp there.
CbCall(r) ==
    /\ runners[r].todo # <<>>
    /\ NextStep(r).op = "call"
    /\ LET t == lattice[runners[r].event].timestamp
           o == Outputs(variant)[1]
       IN  \E user_send \in (IF NextStep(r).arg = "on_data" THEN {TRUE} ELSE BOOLEAN) :
              /\ write_streams' =
                    IF user_send THEN SendAll(write_streams, {o}, Data(t))
                    ELSE write_streams
              /\ cb_log' =
                    IF user_send /\ NextStep(r).arg = "on_watermark"
                    THEN Append(Logged(r), <<runners[r].event, "user_send", o>>)
                    ELSE Logged(r)
    /\ runners' = Advance(r)
    /\ UNCHANGED <<cbFrame, completed, blocked, mutexes>>

\* write_stream.send(Message::new_watermark(t)).ok()
CbSend(r) ==
    /\ runners[r].todo # <<>>
    /\ NextStep(r).op = "send"
    /\ write_streams' = SendAll(write_streams, {NextStep(r).arg},
                                Watermark(lattice[runners[r].event].timestamp))
    /\ runners' = Advance(r)
    /\ cb_log' = Logged(r)
    /\ UNCHANGED <<cbFrame, completed, blocked, mutexes>>

\* state.commit(&time)
CbCommit(r) ==
    /\ runners[r].todo # <<>>
    /\ NextStep(r).op = "commit"
    /\ runners' = Advance(r)
    /\ cb_log' = Logged(r)
    /\ UNCHANGED <<cbFrame, completed, blocked, write_streams, mutexes>>

\* The closure returns.
CbFinish(r) ==
    /\ runners[r].event # 0
    /\ runners[r].todo = <<>>
    /\ completed' = completed \cup {runners[r].event}
    /\ runners' = [runners EXCEPT ![r] = Idle]
    /\ UNCHANGED <<cbFrame, blocked, write_streams, mutexes, cb_log>>

\* The messages whose events the loop has inserted by the time it ends.
CbInputs == InputSequences

\* execute has left its loop with the events of an input in the lattice and
\* is about to send the terminal watermarks; the event runners have run
\* none of the events yet.
CbExecInit ==
    /\ variant \in Variants
    /\ flow_watermarks \in BOOLEAN
    /\ pc = "cleanup_check"
    /\ cleanup_index = 1
    /\ log = Lifecycle
    /\ setup_context = <<>>
    /\ read_stream = <<>>
    /\ condition_context = [t \in Timestamps \cup {Top} |-> 0]
    /\ \E input \in CbInputs :
          /\ delivered = input
          /\ lattice = [i \in 1..Len(input) |->
                          IF input[i].kind = "Data" THEN message_cb_event(input[i])
                          ELSE watermark_cb_event(flow_watermarks, input[i].timestamp)]
          /\ notifications = Len(input)
    /\ events = <<>>
    /\ completed = {}
    /\ blocked = {}
    /\ event_runners = TRUE
    /\ write_streams = [o \in {Outputs(variant)[i] : i \in 1..Len(Outputs(variant))}
                            |-> NewWriteStream]
    /\ deadline_queue = <<>>
    /\ deadline_queue_rx = <<>>
    /\ stream_timestamp_to_key_map = {}
    /\ handler_calls = <<>>
    /\ channel_from_worker = "empty"
    /\ channel_to_worker = <<>>

InitCb == CbExecInit /\ TwoInit /\ CbInit

NextCb ==
    \/ \E r \in Runners : CbStart(r)
    \/ \E r \in Runners : CbLock(r)
    \/ \E r \in Runners : CbLockPanic(r)
    \/ \E r \in Runners : CbUnlock(r)
    \/ \E r \in Runners : CbCall(r)
    \/ \E r \in Runners : CbSend(r)
    \/ \E r \in Runners : CbCommit(r)
    \/ \E r \in Runners : CbFinish(r)
    \/ CleanupCheck
    \/ CleanupSend
    \/ NotifyWorker

SpecCb == InitCb /\ [][NextCb]_vars

(* ------------------------------ claims -------------------------------- *)

\* C1: after execute has returned, every output stream of the executor holds
\* exactly one Watermark(Top) and it is the last message of the stream, also
\* once the callbacks that were pending or running at the return have run.
TerminalWatermark ==
    pc = "done" =>
        \A o \in DOMAIN write_streams :
            LET msgs == write_streams[o].msgs
            IN  /\ CountTop(msgs) = 1
                /\ msgs[Len(msgs)] = Watermark(Top)

\* execute has returned and a data callback ran after the terminal Top: its
\* data is on no stream.
TerminalWatermarkWitness ==
    /\ pc = "done"
    /\ \E i \in completed : lattice[i].callback = "on_data"
    /\ \A o \in DOMAIN write_streams : write_streams[o].msgs = <<Watermark(Top)>>

\* C2: the lifecycle steps of execute happen in the order synchronize, setup,
\* run, loop, destroy, then Watermark(Top) on the open outputs in their order,
\* each at most once, then DestroyedOperator, once and last.
LifecycleOrder ==
    LET n == Len(log)
        m == Len(Lifecycle)
        outs == Outputs(variant)
    IN  /\ n <= m => log = SubSeq(Lifecycle, 1, n)
        /\ n > m =>
              /\ SubSeq(log, 1, m) = Lifecycle
              /\ \A i \in (m + 1)..n : \A j \in (m + 1)..n :
                    i < j =>
                        /\ log[i] # "DestroyedOperator"
                        /\ log[i] \in Range(outs)
                        /\ log[j] \in Range(outs) =>
                              \E a \in 1..Len(outs) : \E b \in 1..Len(outs) :
                                  a < b /\ outs[a] = log[i] /\ outs[b] = log[j]
              /\ log[n] \in Range(outs) \cup {"DestroyedOperator"}
        /\ Len(channel_to_worker) <= 1
        /\ (pc = "done") = (n > 0 /\ log[n] = "DestroyedOperator")
        /\ pc = "done" => channel_to_worker = <<<<"DestroyedOperator", OperatorId>>>>

\* A full run of a one-in-two-out executor.
LifecycleOrderWitness ==
    /\ pc = "done"
    /\ log = Lifecycle \o <<"left_write_stream", "right_write_stream",
                            "DestroyedOperator">>

\* C3: once the worker channel has yielded Shutdown or an error in the loop,
\* execute goes through destroy and the terminal watermarks and ends with
\* DestroyedOperator published.
ShutdownDiscipline ==
    "loop" \in Range(log) =>
        /\ pc \in {"destroy", "cleanup_check", "cleanup_send", "notify", "done"}
        /\ pc \in {"cleanup_check", "cleanup_send", "notify", "done"} =>
              Cardinality({i \in 1..Len(log) : log[i] = "destroy"}) = 1
        /\ pc = "done" => Len(channel_to_worker) = 1

\* C4: once execute has left its select, nothing is inserted into the lattice
\* and no AddedEvents is sent.
NoEventsAfterShutdown ==
    [][pc \notin {"synchronize", "setup", "run", "loop"} =>
          /\ lattice' = lattice
          /\ notifications' = notifications]_vars

\* Scenario S6: Shutdown after Data(1) was delivered and before Watermark(1).
NoEventsAfterShutdownWitness ==
    /\ pc = "done"
    /\ read_stream = <<Watermark(1)>>
    /\ lattice = <<message_cb_event(Data(1))>>

\* Timestamps of the watermark events of the lattice, in insertion order.
WatermarkEvents == SelectSeq(lattice, LAMBDA e : e.is_watermark)

\* C5: the timestamps of the watermark events process_two_streams inserts are
\* strictly increasing.
MergedWatermarkMonotone ==
    \A i \in 1..Len(WatermarkEvents) : \A j \in 1..Len(WatermarkEvents) :
        i < j => WatermarkEvents[i].timestamp < WatermarkEvents[j].timestamp

\* Watermark events were inserted for watermarks of both sides.
MergedWatermarkMonotoneWitness ==
    /\ Len(WatermarkEvents) = 2
    /\ \E k \in 1..Len(arrivals) : arrivals[k][1] = "left" /\ Len(batches[k]) = 1
                                    /\ arrivals[k][2].kind = "Watermark"
    /\ \E k \in 1..Len(arrivals) : arrivals[k][1] = "right" /\ Len(batches[k]) = 1
                                    /\ arrivals[k][2].kind = "Watermark"

\* C6: a watermark read by process_two_streams yields exactly one watermark
\* event when min(left_watermark, right_watermark), taken after the update of
\* its side, exceeds the stored merged watermark, and no event otherwise.
IdempotentWatermark ==
    [][(/\ Len(arrivals') = Len(arrivals) + 1
        /\ arrivals'[Len(arrivals')][2].kind = "Watermark") =>
          LET batch == batches'[Len(batches')]
          IN  /\ Len(batches') = Len(batches) + 1
              /\ \A i \in 1..Len(batch) : batch[i].is_watermark
              /\ Len(batch) = IF min(left_watermark', right_watermark') > min_watermark
                              THEN 1 ELSE 0
              /\ lattice' = lattice \o batch]_vars

\* A watermark that produced no event although it raised its side, and one
\* that produced an event.
IdempotentWatermarkWitness ==
    /\ \E k \in 1..Len(arrivals) :
          /\ arrivals[k][2].kind = "Watermark"
          /\ k > 1
          /\ batches[k] = <<>>
    /\ \E k \in 1..Len(arrivals) :
          /\ arrivals[k][2].kind = "Watermark"
          /\ Len(batches[k]) = 1

\* Scenario S2: Watermark(1) left, Watermark(2) right, Watermark(3) left,
\* Watermark(4) right, then the end of both inputs.
S2Arrivals ==
    << <<"left", Watermark(1)>>, <<"right", Watermark(2)>>,
       <<"left", Watermark(3)>>, <<"right", Watermark(4)>> >>

\* C7: scenario S2 produces watermark events for exactly the timestamps 2 and 3.
S2WatermarkEvents ==
    (arrivals = S2Arrivals /\ loop2 = "returned") =>
        [i \in 1..Len(WatermarkEvents) |-> WatermarkEvents[i].timestamp] = <<2, 3>>

\* The events of the delay queue, pending or expired, with a key.
TimersOf(key) ==
    LET all == deadline_queue \o deadline_queue_rx
    IN  {i \in 1..Len(all) : Key(all[i]) = key}

\* C8: at most one timer is armed per (stream_id, timestamp), and it has an
\* entry in the map of active deadlines.
SingleArmDeadlines ==
    \A t \in Timestamps \cup {Top} :
        /\ Cardinality(TimersOf(<<ReadStreamId, t>>)) <= 1
        /\ TimersOf(<<ReadStreamId, t>>) # {} =>
              <<ReadStreamId, t>> \in stream_timestamp_to_key_map

\* Two declared deadlines matched the first Data(1): one timer is armed.
SingleArmDeadlinesWitness ==
    /\ setup_context = <<OnOtherStream, OnFirstData, OnEveryMessage>>
    /\ condition_context[1] = 1
    /\ lattice \o events = <<message_cb_event(Data(1))>>
    /\ Len(deadline_queue) = 1
    /\ stream_timestamp_to_key_map = {<<ReadStreamId, 1>>}

\* process_stream receives an expired deadline event.
DeadlineReceived ==
    /\ deadline_queue_rx # <<>>
    /\ deadline_queue_rx' = Tail(deadline_queue_rx)

\* The end condition of the received event on the output stream's statistics.
EndConditionHolds ==
    LET event == Head(deadline_queue_rx)
    IN  get_statistics(write_streams["write_stream"], event.timestamp) >= event.end_count

\* Scenario S3 after its deadline was dealt with: OnFirstData declared, a
\* single Data(1) read, no timer left.
S3Over ==
    /\ variant = "OneInOneOut"
    /\ setup_context = <<OnFirstData>>
    /\ condition_context[1] = 1
    /\ lattice \o events = <<message_cb_event(Data(1))>>
    /\ deadline_queue = <<>>
    /\ deadline_queue_rx = <<>>

\* C9: in a one-in-one-out executor, a deadline received while its end
\* condition is false on the output statistics has its handler invoked once
\* with its timestamp, and its map entry is gone afterwards; in scenario S3
\* the handler runs exactly once, with timestamp 1.
DeadlineMiss ==
    /\ [][(variant = "OneInOneOut" /\ DeadlineReceived /\ ~EndConditionHolds) =>
             /\ handler_calls' = Append(handler_calls, Head(deadline_queue_rx).timestamp)
             /\ Key(Head(deadline_queue_rx)) \notin stream_timestamp_to_key_map']_vars
    /\ [](S3Over => handler_calls = <<1>> /\ stream_timestamp_to_key_map = {})

DeadlineMissWitness ==
    /\ S3Over
    /\ read_stream = <<>>
    /\ handler_calls = <<1>>

\* C10: in a one-in-one-out executor, a deadline received while its end
\* condition holds on the output statistics does not invoke the handler; in
\* both cases its map entry is removed.
DeadlineSatisfied ==
    [][(variant = "OneInOneOut" /\ DeadlineReceived) =>
          /\ EndConditionHolds => handler_calls' = handler_calls
          /\ Key(Head(deadline_queue_rx)) \notin stream_timestamp_to_key_map']_vars

\* Scenario S4: Data(1) twice, both forwarded, the deadline dealt with and
\* the handler never invoked.
DeadlineSatisfiedWitness ==
    /\ variant = "OneInOneOut"
    /\ setup_context = <<OnFirstData>>
    /\ condition_context[1] = 2
    /\ get_statistics(write_streams["write_stream"], 1) = 2
    /\ deadline_queue = <<>>
    /\ deadline_queue_rx = <<>>
    /\ stream_timestamp_to_key_map = {}
    /\ handler_calls = <<>>

\* The events process_stream has created so far, inserted or not yet.
CreatedEvents == lattice \o events

\* A data event and a watermark event of the same timestamp.
SameTimestampPair(d, w) ==
    /\ ~CreatedEvents[d].is_watermark
    /\ CreatedEvents[w].is_watermark
    /\ CreatedEvents[d].timestamp = CreatedEvents[w].timestamp

\* C11: for every timestamp, every executor variant and both values of
\* flow_watermarks, the priority of each data event is at most the priority
\* of the watermark event of the same timestamp.
DataPriorityAtMostWatermark ==
    \A d \in 1..Len(CreatedEvents) : \A w \in 1..Len(CreatedEvents) :
        SameTimestampPair(d, w) =>
            CreatedEvents[d].priority <= CreatedEvents[w].priority

\* A sequential one-in-two-out executor without flow_watermarks holds a data
\* event and a watermark event of one timestamp.
DataPriorityAtMostWatermarkWitness ==
    /\ variant = "OneInTwoOut"
    /\ ~flow_watermarks
    /\ \E d \in 1..Len(lattice) : \E w \in 1..Len(lattice) : SameTimestampPair(d, w)

\* C12 as stated: for both values of flow_watermarks the watermark event has
\* a strictly higher priority number than every data event of its timestamp.
StrictWatermarkPriority ==
    \A d \in 1..Len(CreatedEvents) : \A w \in 1..Len(CreatedEvents) :
        SameTimestampPair(d, w) =>
            CreatedEvents[w].priority > CreatedEvents[d].priority

\* C12: the watermark event has a strictly higher priority number than the
\* data events of its timestamp when flow_watermarks is set, and the same
\* priority number as they have when it is not.
WatermarkPriorityByFlow ==
    \A d \in 1..Len(CreatedEvents) : \A w \in 1..Len(CreatedEvents) :
        SameTimestampPair(d, w) =>
            /\ flow_watermarks => CreatedEvents[w].priority > CreatedEvents[d].priority
            /\ ~flow_watermarks => CreatedEvents[w].priority = CreatedEvents[d].priority

\* A parallel one-in-two-out executor with flow_watermarks holds a data
\* event of priority 0 and the watermark event of its timestamp at 127.
WatermarkPriorityByFlowWitness ==
    /\ variant = "ParallelOneInTwoOut"
    /\ flow_watermarks
    /\ \E d \in 1..Len(lattice) : \E w \in 1..Len(lattice) :
          /\ SameTimestampPair(d, w)
          /\ lattice[d].priority = 0
          /\ lattice[w].priority = 127

\* The steps process_stream can take by itself: a branch of its select, the
\* insertion it awaits, or the expiry of one of its timers.
ProcessStreamStep == DeadlineBranch \/ MessageBranch \/ AddEvents \/ TimerExpire

\* C13: when the read stream has ended and the worker has sent nothing,
\* execute does not stay in its loop waiting on the timer queue and the
\* worker channel: process_stream still has a step to take, or execute has
\* left the loop towards destroy, the terminal watermark and
\* DestroyedOperator.
StreamEndTerminates ==
    (read_stream = <<>> /\ channel_from_worker = "empty") =>
        (pc # "loop" \/ ENABLED ProcessStreamStep)

\* The event process_stream creates for a message.
EventOf(msg) ==
    IF msg.kind = "Data" THEN message_cb_event(msg)
    ELSE watermark_cb_event(flow_watermarks, msg.timestamp)

\* C14: the events of a single input stream are inserted into the lattice in
\* the order process_stream was delivered their messages: the i-th event of
\* the lattice is the event of the i-th message delivered, whether or not
\* deadline events were received in between.
InsertionOrder ==
    /\ Len(lattice) <= Len(delivered)
    /\ \A i \in 1..Len(lattice) : lattice[i] = EventOf(delivered[i])

\* Data(1) was read and armed the deadline, the deadline expired and its
\* handler ran, then Watermark(1) was read, which armed the deadline again,
\* and both events are in the lattice.
InsertionOrderWitness ==
    /\ setup_context = <<OnFirstData>>
    /\ delivered = <<Data(1), Watermark(1)>>
    /\ handler_calls = <<1>>
    /\ stream_timestamp_to_key_map = {<<ReadStreamId, 1>>}
    /\ Len(lattice) = 2

\* C15: a Shutdown that arrives while execute is in synchronize aborts the
\* startup: execute does not go on from synchronize to the call of setup,
\* to run or to the loop, and no message is read.
ShutdownAbortsStartup ==
    [][(pc = "synchronize" /\ channel_from_worker # "empty") =>
          /\ pc' \notin {"setup", "run", "loop"}
          /\ read_stream' = read_stream]_vars

\* An inserted batch was not announced: the send of AddedEvents has failed.
AddedEventsSendFailed == ~event_runners /\ notifications < Len(lattice)

\* C16: when the send of AddedEvents has failed, the loop is over and execute
\* is at destroy or past it: it ends with destroy run and with every output
\* stream closed by the terminal watermark.
NotifierDownStillCleansUp ==
    AddedEventsSendFailed =>
        /\ pc \in {"destroy", "cleanup_check", "cleanup_send", "notify", "done"}
        /\ pc = "done" =>
              /\ "destroy" \in Range(log)
              /\ \A o \in DOMAIN write_streams : is_closed(write_streams[o])

\* C17: when the send of the terminal Top fails because the output stream was
\* closed after the is_closed check, the failure is swallowed: execute goes
\* on to the next output stream or to the publication of DestroyedOperator.
TerminalSendFailureSwallowed ==
    [][(/\ pc = "cleanup_send"
        /\ is_closed(write_streams[Outputs(variant)[cleanup_index]])
        /\ pc' # pc) =>
          pc' \in {"cleanup_check", "notify"}]_vars

\* C18: whenever process_two_streams produces a watermark event, the stored
\* merged watermark becomes min(left, right) of the latest watermarks of the
\* two inputs and the event carries that timestamp, so that the timestamp of
\* the event is above the latest watermark of neither input.
MergedIsMinimum ==
    [][(/\ Len(lattice') > Len(lattice)
        /\ lattice'[Len(lattice')].is_watermark) =>
          /\ min_watermark' = min(left_watermark', right_watermark')
          /\ lattice'[Len(lattice')].timestamp = min_watermark'
          /\ lattice'[Len(lattice')].timestamp <= left_watermark'
          /\ lattice'[Len(lattice')].timestamp <= right_watermark']_vars

\* The end condition of the received event is false on the statistics of
\* every output stream of the executor.
EndConditionFalseOnOutputs ==
    LET event == Head(deadline_queue_rx)
    IN  \A o \in DOMAIN write_streams :
            ~end_condition(event, get_statistics(write_streams[o], event.timestamp))

\* C19: in every executor that runs process_stream, the one-in-two-out ones
\* included, a deadline event received while its end condition is false has
\* its handler invoked with its timestamp.
DeadlineMissEveryExecutor ==
    [][(DeadlineReceived /\ EndConditionFalseOnOutputs) =>
          handler_calls' = Append(handler_calls, Head(deadline_queue_rx).timestamp)]_vars

\* The deadlines the last message delivered has to arm are in the map.
LastMessageArmed ==
    LET msg == delivered[Len(delivered)]
        deadline_events == arm_deadlines(setup_context, condition_context, msg.timestamp)
    IN  \A i \in 1..Len(deadline_events) :
            Key(deadline_events[i]) \in stream_timestamp_to_key_map

\* C20: for every message process_stream reads, its one event is created and
\* its deadlines are armed, then one batch holding that one event is inserted
\* into the lattice, then one AddedEvents is sent: an event is pending
\* insertion only with the deadlines of its message armed and every earlier
\* message inserted and announced, the select is polled again only with
\* every message read inserted and announced, and an AddedEvents is never
\* sent before the insertion it announces.
MessageSteps ==
    /\ Len(events) <= 1
    /\ notifications <= Len(lattice)
    /\ Len(lattice) <= Len(delivered)
    /\ Len(lattice) - notifications <= (IF event_runners THEN 0 ELSE 1)
    /\ events # <<>> =>
          /\ events = <<EventOf(delivered[Len(delivered)])>>
          /\ LastMessageArmed
          /\ Len(lattice) = Len(delivered) - 1
          /\ notifications = Len(lattice)
    /\ (pc = "loop" /\ events = <<>>) =>
          /\ Len(lattice) = Len(delivered)
          /\ notifications = Len(lattice)

\* The second message read has its event created and its three deadlines'
\* keys armed while its insertion is awaited; the first message is inserted
\* and announced.
MessageStepsWitness ==
    /\ pc = "loop"
    /\ Len(setup_context) = 3
    /\ Len(delivered) = 2
    /\ events = <<EventOf(delivered[2])>>
    /\ lattice = <<EventOf(delivered[1])>>
    /\ notifications = 1
    /\ <<ReadStreamId, delivered[2].timestamp>> \in stream_timestamp_to_key_map

\* The positions of the log at which the closure of event i took a step.
LogIndex(i, op, arg) == {k \in 1..Len(cb_log) : cb_log[k] = <<i, op, arg>>}

\* The positions of a stream that hold a message.
Positions(msgs, msg) == {k \in 1..Len(msgs) : msgs[k] = msg}

\* C21: in a one-in-one-out executor the watermark callback for Watermark(t)
\* calls on_watermark once; with flow_watermarks it then sends Watermark(t)
\* once, after everything on_watermark has sent, and returns whether or not
\* that send succeeds; without flow_watermarks it sends no Watermark(t).
WatermarkCallbackFlow ==
    variant = "OneInOneOut" =>
        /\ blocked = {}
        /\ \A i \in 1..Len(lattice) :
              lattice[i].is_watermark =>
                LET t == lattice[i].timestamp
                    msgs == write_streams["write_stream"].msgs
                    calls == LogIndex(i, "call", "on_watermark")
                    sends == LogIndex(i, "send", "write_stream")
                    user == LogIndex(i, "user_send", "write_stream")
                IN  /\ Cardinality(calls) <= 1
                    /\ Cardinality(sends) <= 1
                    /\ \A k \in sends :
                          /\ \E c \in calls : c < k
                          /\ \A u \in user : u < k
                    /\ i \in completed =>
                          /\ Cardinality(calls) = 1
                          /\ Cardinality(sends) = IF flow_watermarks THEN 1 ELSE 0
                    /\ Cardinality(Positions(msgs, Watermark(t))) <= 1
                    /\ \A w \in Positions(msgs, Watermark(t)) :
                          \A d \in Positions(msgs, Data(t)) : d < w
                    /\ (~flow_watermarks /\ t # Top) => Positions(msgs, Watermark(t)) = {}

\* Data(1), Watermark(1) with flow_watermarks: on_data forwarded the data,
\* on_watermark sent data of its own, then the callback sent Watermark(1).
WatermarkCallbackFlowWitness ==
    /\ variant = "OneInOneOut"
    /\ flow_watermarks
    /\ delivered = <<Data(1), Watermark(1)>>
    /\ completed = {1, 2}
    /\ write_streams["write_stream"].msgs = <<Data(1), Data(1), Watermark(1)>>

\* An event runner waits for a mutex that its own closure holds.
SelfLocked(r) ==
    /\ runners[r].todo # <<>>
    /\ NextStep(r).op = "lock"
    /\ mutexes[NextStep(r).arg] = r

\* No on_watermark has sent data of its own.
NoUserSend == \A k \in 1..Len(cb_log) : cb_log[k][2] # "user_send"

\* C22: in both one-in-two-out variants and for both values of
\* flow_watermarks the watermark callback calls on_watermark, then, with
\* flow_watermarks, sends Watermark(t) on the left and on the right output,
\* then commits the state, and it does so for every watermark event it is
\* run for; Data(1), Watermark(1) with flow_watermarks leave Data(1),
\* Watermark(1) on the left and Watermark(1) on the right output for the
\* terminal watermarks to follow.
TwoOutWatermarkCallback ==
    variant # "OneInOneOut" =>
        /\ blocked = {}
        /\ \A r \in Runners : ~SelfLocked(r)
        /\ \A i \in 1..Len(lattice) :
              lattice[i].is_watermark =>
                LET calls == LogIndex(i, "call", "on_watermark")
                    left == LogIndex(i, "send", "left_write_stream")
                    right == LogIndex(i, "send", "right_write_stream")
                    commits == LogIndex(i, "commit", "state")
                IN  /\ \A k \in left \cup right : \E c \in calls : c < k
                    /\ \A k \in right : \E l \in left : l < k
                    /\ \A k \in commits :
                          /\ \E c \in calls : c < k
                          /\ \A l \in left \cup right : l < k
                    /\ i \in completed =>
                          /\ Cardinality(calls) = 1
                          /\ Cardinality(commits) = 1
                          /\ Cardinality(left) = IF flow_watermarks THEN 1 ELSE 0
                          /\ Cardinality(right) = IF flow_watermarks THEN 1 ELSE 0
        /\ (/\ flow_watermarks
            /\ delivered = <<Data(1), Watermark(1)>>
            /\ completed = {1, 2}
            /\ NoUserSend
            /\ pc = "cleanup_check"
            /\ cleanup_index = 1) =>
              /\ write_streams["left_write_stream"].msgs = <<Data(1), Watermark(1)>>
              /\ write_streams["right_write_stream"].msgs = <<Watermark(1)>>

\* C25: the watermark callback of the sequential one-in-two-out processor runs
\* to completion for both values of flow_watermarks: its closure never gets
\* to a lock of a mutex it already holds, and no watermark callback ends in a
\* panic instead of calling on_watermark and committing.
SequentialWatermarkCompletes ==
    variant = "OneInTwoOut" =>
        /\ \A r \in Runners :
              (runners[r].event # 0 /\ lattice[runners[r].event].is_watermark) =>
                  ~SelfLocked(r)
        /\ \A i \in blocked : ~lattice[i].is_watermark

\* An event runner waits for a mutex that another event runner holds.
WaitsFor(r, other) ==
    /\ runners[r].todo # <<>>
    /\ NextStep(r).op = "lock"
    /\ mutexes[NextStep(r).arg] = other

\* C26: the data callback and the watermark callback of the sequential
\* one-in-two-out processor take the operator mutex and the state mutex in
\* the same order: two event runners never each hold one of the two and wait
\* for the other.
NoLockOrderDeadlock ==
    variant = "OneInTwoOut" =>
        \A r \in Runners : \A other \in Runners \ {r} :
            ~(WaitsFor(r, other) /\ WaitsFor(other, r))

\* The declared deadlines, by position, that are on the read stream and
\* whose start condition holds at a timestamp.
Matching(sc, ctx, t) ==
    {i \in 1..Len(sc) : sc[i].constrained /\ (sc[i].start = "first_data" => ctx[t] = 1)}

\* The k-th smallest element of a set of numbers.
Nth(set, k) == CHOOSE i \in set : Cardinality({j \in set : j < i}) = k - 1

\* C23: for a message at timestamp t of the read stream, arm_deadlines yields
\* one event keyed (stream, t) for each declared deadline that is on the
\* stream and whose start condition holds at t, in declaration order, and
\* none for the others; manage_deadlines arms a yielded event unless its key
\* is in the map of active deadlines, so a message arms the first matching
\* deadline only, and none when its key is active.
ArmFirstMatching ==
    /\ [](\A t \in Timestamps \cup {Top} :
            LET yielded == arm_deadlines(setup_context, condition_context, t)
                matching == Matching(setup_context, condition_context, t)
            IN  /\ Len(yielded) = Cardinality(matching)
                /\ \A k \in 1..Len(yielded) :
                      /\ Key(yielded[k]) = <<ReadStreamId, t>>
                      /\ yielded[k].end_count = setup_context[Nth(matching, k)].end_count)
    /\ [][delivered' # delivered =>
            LET t == delivered'[Len(delivered')].timestamp
                matching == Matching(setup_context, condition_context', t)
                armed == matching # {} /\ <<ReadStreamId, t>> \notin stream_timestamp_to_key_map
            IN  /\ deadline_queue' =
                      IF armed
                      THEN Append(deadline_queue,
                                  [stream_id |-> ReadStreamId, timestamp |-> t,
                                   end_count |-> setup_context[Nth(matching, 1)].end_count])
                      ELSE deadline_queue
                /\ stream_timestamp_to_key_map' =
                      IF armed
                      THEN stream_timestamp_to_key_map \cup {<<ReadStreamId, t>>}
                      ELSE stream_timestamp_to_key_map]_vars

\* Of the three declared deadlines the second and the third matched
\* Watermark(2); the timer armed is the one of the second.
ArmFirstMatchingWitness ==
    /\ setup_context = <<OnOtherStream, OnFirstData, OnEveryMessage>>
    /\ delivered = <<Data(2), Watermark(2)>>
    /\ handler_calls = <<2>>
    /\ deadline_queue = <<[stream_id |-> ReadStreamId, timestamp |-> 2, end_count |-> 2]>>

RECURSIVE Flatten(_)
Flatten(seqs) == IF seqs = <<>> THEN <<>> ELSE Head(seqs) \o Flatten(Tail(seqs))

PendingKeys == {Key(e) : e \in Range(deadline_queue \o deadline_queue_rx)}

\* C27: in process_stream the keys of the active-deadline map are exactly the
\* keys of the deadline events inserted into the delay queue and not yet
\* handled by the loop, so the key of a received deadline event is always in
\* the map and the branch that warns about a missing key is never taken.
MapKeysArePendingKeys ==
    /\ [](stream_timestamp_to_key_map = PendingKeys)
    /\ [][DeadlineReceived =>
            /\ Key(Head(deadline_queue_rx)) \in stream_timestamp_to_key_map
            /\ stream_timestamp_to_key_map' =
                  stream_timestamp_to_key_map \ {Key(Head(deadline_queue_rx))}]_vars

\* The deadline of timestamp 1 was received and handled while the deadline of
\* timestamp 2 is still in the delay queue.
MapKeysArePendingKeysWitness ==
    /\ handler_calls = <<1>>
    /\ stream_timestamp_to_key_map = {<<ReadStreamId, 2>>}
    /\ Len(deadline_queue) = 1
    /\ deadline_queue_rx = <<>>

\* C28: over a whole run the deadline handler is invoked at most once per
\* (stream_id, timestamp), and a message with timestamp t that arrives after
\* the deadline of t was handled does not arm a new deadline for t.
DeadlineOncePerTimestamp ==
    /\ [](\A i, j \in 1..Len(handler_calls) :
              i # j => handler_calls[i] # handler_calls[j])
    /\ [][\A t \in Range(handler_calls) :
              <<ReadStreamId, t>> \notin stream_timestamp_to_key_map =>
                  <<ReadStreamId, t>> \notin stream_timestamp_to_key_map']_vars

\* process_two_streams has read a watermark that does not advance the merged
\* watermark.
StaleWatermarkRead ==
    /\ Len(arrivals') = Len(arrivals) + 1
    /\ arrivals'[Len(arrivals')][2].kind = "Watermark"
    /\ ~(min(left_watermark', right_watermark') > min_watermark)

ReadWithOneInputEnded ==
    /\ Len(arrivals') = Len(arrivals) + 1
    /\ left_open # right_open

\* The batch the loop builds for a message given the last watermark of each
\* side and the merged watermark.
ExpectedBatch(side, msg, left, right, merged) ==
    IF msg.kind = "Data"
    THEN <<TwoInEvent(side \o "_stateless", msg.timestamp, FALSE),
           TwoInEvent(side \o "_stateful", msg.timestamp, FALSE)>>
    ELSE IF min(left, right) > merged
         THEN <<TwoInEvent("watermark", msg.timestamp, TRUE)>>
         ELSE <<>>

\* C30: process_two_streams leaves its loop only when both inputs have ended;
\* while one input has ended the messages of the other are still read and
\* turned into events, its watermarks being merged against the last watermark
\* of the ended side; once both have ended the loop breaks.
TwoLoopExitsWhenBothEnded ==
    /\ [](/\ loop2 = "returned" => ~left_open /\ ~right_open
          /\ (loop2 = "loop" /\ ~left_open /\ ~right_open) => ENABLED TwoLoopExit
          /\ (loop2 = "loop" /\ left_open /\ Len(arrivals) < MaxReads) =>
                ENABLED LeftMessage
          /\ (loop2 = "loop" /\ right_open /\ Len(arrivals) < MaxReads) =>
                ENABLED RightMessage)
    /\ [][ReadWithOneInputEnded =>
            LET a == arrivals'[Len(arrivals')]
                closed == IF left_open THEN "right" ELSE "left"
            IN  /\ a[1] # closed
                /\ closed = "left" => left_watermark' = left_watermark
                /\ closed = "right" => right_watermark' = right_watermark
                /\ lattice' = lattice \o
                      ExpectedBatch(a[1], a[2],
                                    IF closed = "left" THEN left_watermark
                                    ELSE IF a[2].kind = "Watermark" THEN a[2].timestamp
                                    ELSE left_watermark,
                                    IF closed = "right" THEN right_watermark
                                    ELSE IF a[2].kind = "Watermark" THEN a[2].timestamp
                                    ELSE right_watermark,
                                    min_watermark)]_vars

\* The left input ended after its Watermark(1); Data(1) and Watermark(2) of
\* the right input were read afterwards, the watermark advancing the merged
\* watermark over the left side's last one, and the loop broke once the right
\* input had ended too.
TwoLoopExitsWhenBothEndedWitness ==
    /\ loop2 = "returned"
    /\ closed_at["left"] = 1
    /\ closed_at["right"] = 3
    /\ arrivals = <<<<"left", Watermark(1)>>, <<"right", Data(1)>>,
                     <<"right", Watermark(2)>>>>
    /\ Len(lattice) = 3

\* execute leaves its select through the worker channel.
LoopEndedByWorker == pc = "loop" /\ pc' = "destroy"

\* C31: once a Shutdown or an error of the worker channel has ended the loop,
\* the deadline handler is not invoked any more, whatever timers elapse
\* afterwards, and neither the step that ends the loop nor any later step
\* changes the map of active deadlines: the deadlines armed at that moment
\* stay in the map of the helper that execute puts back.
NoHandlerAfterShutdown ==
    [][(LoopEndedByWorker \/ pc \notin {"synchronize", "setup", "run", "loop"}) =>
          /\ handler_calls' = handler_calls
          /\ stream_timestamp_to_key_map' = stream_timestamp_to_key_map]_vars

\* execute has finished after a Shutdown that came while the deadline of
\* timestamp 1 was armed: its duration has elapsed, the event waits at the
\* receiver, the handler never ran and the key is still in the map.
NoHandlerAfterShutdownWitness ==
    /\ pc = "done"
    /\ "destroy" \in Range(log)
    /\ Len(deadline_queue_rx) = 1
    /\ deadline_queue_rx[1].timestamp = 1
    /\ deadline_queue = <<>>
    /\ handler_calls = <<>>
    /\ stream_timestamp_to_key_map = {<<ReadStreamId, 1>>}
    /\ ~disarm_deadline(variant, write_streams, deadline_queue_rx[1])

====
